---- MODULE Spec2Model ----
(***************************************************************************)
(* The follow graph service: the express handlers of the                   *)
(* user controller (createUser, followUser, unfollowUser, getAllUsers,     *)
(* getFollowersCountDaily, getCommonFollowers) running as concurrent       *)
(* requests against one MongoDB collection of User documents.              *)
(*                                                                         *)
(* A handler is synchronous between two awaits, and every store request    *)
(* (findOne, create, findOneAndUpdate, aggregate, findById, find) is       *)
(* atomic on the collection.  One action is therefore either the start of  *)
(* a request (validation, up to the first await) or "the store executes    *)
(* the pending request and the handler runs on to its next await".         *)
(***************************************************************************)
EXTENDS Integers, Sequences, FiniteSets, TLC

(* ------------------------------ bounds --------------------------------- *)
\* concurrent request slots of the express server
NumProcs == 2
\* users the collection may hold
MaxUsers == 2
\* last value of the clock read by new Date()
MaxClock == 1
\* requests received in one run
MaxCalls == 4
\* hex digits of an identifier text (an ObjectId has 24)
IdLen == 2
\* clock ticks in one calendar day
TicksPerDay == 2
\* users of the collection the queries are made on
QueryUsers == 3
\* requests received in a run that starts from a collection of QueryUsers users
SnapshotCalls == 3
\* the clock when the queries are made
QueryClock == 2

(* ------------------------- program constants --------------------------- *)
\* username.length < 3 is rejected
MinUsernameLen == 3

Procs == 1..NumProcs

(* --------------------------- identifiers ------------------------------- *)
\* An identifier arrives as text; mongoose casts it to an ObjectId (here the
\* number the hex digits denote).  Texts are sequences of characters.
LowerDigits == <<"0","1","2","3","4","5","6","7","8","9","a","b","c","d","e","f">>
UpperDigits == <<"0","1","2","3","4","5","6","7","8","9","A","B","C","D","E","F">>

HexChars == {LowerDigits[i] : i \in 1..16} \cup {UpperDigits[i] : i \in 1..16}

HexValue(c) == CHOOSE v \in 0..15 : LowerDigits[v + 1] = c \/ UpperDigits[v + 1] = c

Pow16(n) == IF n = 0 THEN 1 ELSE IF n = 1 THEN 16 ELSE IF n = 2 THEN 256 ELSE 4096

\* mongoose.isValidObjectId on a string: IdLen hex digits, either case
isValidObjectId(t) == Len(t) = IdLen /\ \A i \in 1..Len(t) : t[i] \in HexChars

RECURSIVE HexNumber(_, _)
HexNumber(t, n) == IF n = 0 THEN 0 ELSE 16 * HexNumber(t, n - 1) + HexValue(t[n])

\* the ObjectId a valid text is cast to (query and update casting by the schema)
CastObjectId(t) == HexNumber(t, Len(t))

\* ObjectId.toString(): lower-case hex
ToHexString(o) == [i \in 1..IdLen |-> LowerDigits[((o \div Pow16(IdLen - i)) % 16) + 1]]
\* the same identifier typed in upper case
ToUpperHex(o) == [i \in 1..IdLen |-> UpperDigits[((o \div Pow16(IdLen - i)) % 16) + 1]]

\* the _id of the n-th document created
FirstObjectId == 10
NthObjectId(n) == FirstObjectId + (n - 1)
\* a well-formed identifier no document ever gets
GhostObjectId == NthObjectId(MaxUsers + 2)

NoText == << >>
\* a text that is no ObjectId ('invalidId' in the tests)
BadText == [i \in 1..IdLen |-> "g"]

NullDate == -1

Usernames == {"ab", "abc", "xyz"}

(* ------------------------------ state ---------------------------------- *)
VARIABLES
    users,      \* the collection: documents in insertion order
    now,        \* the clock
    pc,         \* per request slot: "idle" or the store request the handler awaits
    req,        \* per slot: the request being served
    date,       \* per slot: the new Date() carried by the pending update
    local,      \* per slot: the handler's locals kept across awaits
    nops,       \* per slot: store requests issued by the request so far
    pre,        \* per slot: the collection when the request arrived (sequential runs)
    calls,      \* requests received so far
    out,        \* the response sent by the last step, if it sent one
    hist,       \* the response before that (sequential runs)
    sequential, \* the client waits for each response before its next request
    past        \* what the run has shown so far (recorded runs)

vars == <<users, now, pc, req, date, local, nops, pre, calls, out, hist, sequential, past>>

NoReq == [op |-> "none", userId |-> NoText, otherId |-> NoText, username |-> ""]
NoLocal == << >>
NoPayload == << >>
NoPre == << >>
NoOut == [req |-> NoReq, msg |-> "none", data |-> NoPayload, nops |-> 0, pre |-> NoPre]
\* the run is not recorded
NoPast == [recorded |-> FALSE, failed |-> FALSE, succeeded |-> 0, common |-> {}]
\* the record of a run that has not yet begun
EmptyPast == [recorded |-> TRUE, failed |-> FALSE, succeeded |-> 0, common |-> {}]

(* --------------------------- the collection ---------------------------- *)
Range(s) == {s[i] : i \in 1..Len(s)}

UserIds(store) == {store[i]._id : i \in 1..Len(store)}

\* index of the document with this _id, 0 when there is none
IndexOf(store, oid) ==
    IF oid \in UserIds(store)
    THEN CHOOSE i \in 1..Len(store) : store[i]._id = oid
    ELSE 0

FollowerIds(u) == {u.followers[i].followId : i \in 1..Len(u.followers)}
FollowingIds(u) == {u.followings[i].followingId : i \in 1..Len(u.followings)}

\* new User({username}): empty adjacency lists (models/User.js)
NewUser(oid, name) ==
    [_id |-> oid, username |-> name, followers |-> << >>, followings |-> << >>]

\* User.findOne({username}): is there such a document
FindOneByUsername_Never(store, name) == FALSE
FindOneByUsername(store, name) == \E i \in 1..Len(store) : store[i].username = name

\* the unique index on username refuses a second document with the same value
NoUniqueIndex(store, name) == FALSE
DuplicateKey(store, name) == \E i \in 1..Len(store) : store[i].username = name

\* the filter of followUser's first findOneAndUpdate
MatchPushFollowings_Blind(u, uid, fid) == u._id = uid
MatchPushFollowings_WrongId(u, uid, fid) == u._id = uid /\ uid \notin FollowingIds(u)
MatchPushFollowings(u, uid, fid) == u._id = uid /\ fid \notin FollowingIds(u)
\* the filter of followUser's second findOneAndUpdate
MatchPushFollowers_Blind(u, fid, uid) == u._id = fid
MatchPushFollowers(u, fid, uid) == u._id = fid /\ uid \notin FollowerIds(u)
\* the filter of unfollowUser's first findOneAndUpdate
MatchPullFollowings_Blind(u, uid, fid) == u._id = uid
MatchPullFollowings(u, uid, fid) == u._id = uid /\ fid \in FollowingIds(u)
\* the filter of unfollowUser's second findOneAndUpdate
MatchPullFollowers(u, fid, uid) == u._id = fid /\ uid \in FollowerIds(u)

PushFollowings(u, fid, d) ==
    [u EXCEPT !.followings = Append(@, [followingId |-> fid, date |-> d])]
PushFollowers_FollowBack(u, uid, d) ==
    [u EXCEPT !.followers = Append(@, [followId |-> uid, date |-> d]),
              !.followings = Append(@, [followingId |-> uid, date |-> d])]
PushFollowers(u, uid, d) ==
    [u EXCEPT !.followers = Append(@, [followId |-> uid, date |-> d])]
PullFollowings_Keep(u, fid) == u
PullFollowings(u, fid) ==
    [u EXCEPT !.followings = SelectSeq(@, LAMBDA e : e.followingId # fid)]
PullFollowers_Keep(u, uid) == u
PullFollowers(u, uid) ==
    [u EXCEPT !.followers = SelectSeq(@, LAMBDA e : e.followId # uid)]

(* ------------------------------ Init ----------------------------------- *)
InitCommon ==
    /\ users = << >>
    /\ now = 0
    /\ pc = [p \in Procs |-> "idle"]
    /\ req = [p \in Procs |-> NoReq]
    /\ date = [p \in Procs |-> NullDate]
    /\ local = [p \in Procs |-> NoLocal]
    /\ nops = [p \in Procs |-> 0]
    /\ pre = [p \in Procs |-> NoPre]
    /\ calls = 0
    /\ out = NoOut
    /\ hist = NoOut
    /\ past = NoPast

Init == InitCommon /\ sequential = FALSE
SeqInit == InitCommon /\ sequential = TRUE

(* ------------------------- request plumbing ---------------------------- *)
\* identifiers a client can send: the ids of created users as the server printed
\* them, a well-formed id of no user, and a malformed text
KnownTexts ==
    {ToHexString(o) : o \in UserIds(users)} \cup {ToHexString(GhostObjectId), BadText}

\* the second identifier of followUser and unfollowUser may also be the first
\* user's id typed in upper case
KnownTextsAnyCase ==
    KnownTexts \cup {ToUpperHex(o) : o \in UserIds(users) \cap {NthObjectId(1)}}

\* a request is taken by the lowest free slot
CanStart(p) ==
    /\ pc[p] = "idle"
    /\ \A q \in Procs : q < p => pc[q] # "idle"
    /\ sequential => \A q \in Procs : pc[q] = "idle"

\* the responses a handler sends through res.json (errorHandler sends the rest)
SuccessMessages ==
    {"CREATED", "UPDATE_FOLLOW", "UPDATE_UNFOLLOW", "ALL_USER", "SHOW_FOLLOWERS",
     "COMMON_FOLLOWERS"}

\* <<x, a, b>>: x is in the followers of a and in the followers of b, a # b
CommonNow(store) ==
    UNION {{<<x, store[i]._id, store[j]._id>> :
                x \in FollowerIds(store[i]) \cap FollowerIds(store[j])} :
           i \in 1..Len(store), j \in 1..Len(store)}
        \ {t \in UserIds(store) \X UserIds(store) \X UserIds(store) : t[2] = t[3]}

\* the previous response moves to hist when the next step is taken; a recorded
\* run also keeps whether a response was a failure, how many follows and
\* unfollows succeeded, and who was a common follower in a state left behind
Shift ==
    /\ hist' = IF sequential /\ out # NoOut THEN out ELSE hist
    /\ past' = IF ~past.recorded THEN past
               ELSE [recorded |-> TRUE,
                     failed |-> past.failed \/ out.msg \notin SuccessMessages \cup {"none"},
                     succeeded |-> past.succeeded +
                         (IF out.msg \in {"UPDATE_FOLLOW", "UPDATE_UNFOLLOW"} THEN 1 ELSE 0),
                     common |-> past.common \cup CommonNow(users)]

Snapshot == IF sequential THEN users ELSE NoPre

\* the handler reaches its first await: the request r is in flight
Issue(p, r, first, d) ==
    /\ calls < MaxCalls
    /\ pc' = [pc EXCEPT ![p] = first]
    /\ req' = [req EXCEPT ![p] = r]
    /\ date' = [date EXCEPT ![p] = d]
    /\ nops' = [nops EXCEPT ![p] = 1]
    /\ pre' = [pre EXCEPT ![p] = Snapshot]
    /\ calls' = calls + 1
    /\ out' = NoOut
    /\ Shift
    /\ UNCHANGED <<users, now, local, sequential>>

\* the handler throws during validation: next(err), no store request was made
Reject(p, r, msg) ==
    /\ calls < MaxCalls
    /\ calls' = calls + 1
    /\ out' = [req |-> r, msg |-> msg, data |-> NoPayload, nops |-> 0, pre |-> users]
    /\ Shift
    /\ UNCHANGED <<users, now, pc, req, date, local, nops, pre, sequential>>

\* the handler responds (res.json) or throws after an await (next(err)):
\* the slot is free again
Respond(p, msg, data) ==
    /\ out' = [req |-> req[p], msg |-> msg, data |-> data, nops |-> nops[p],
               pre |-> pre[p]]
    /\ Shift
    /\ pc' = [pc EXCEPT ![p] = "idle"]
    /\ req' = [req EXCEPT ![p] = NoReq]
    /\ date' = [date EXCEPT ![p] = NullDate]
    /\ local' = [local EXCEPT ![p] = NoLocal]
    /\ nops' = [nops EXCEPT ![p] = 0]
    /\ pre' = [pre EXCEPT ![p] = NoPre]
    /\ UNCHANGED <<now, calls, sequential>>

\* the handler awaits its next store request
Await(p, next, d, loc) ==
    /\ pc' = [pc EXCEPT ![p] = next]
    /\ date' = [date EXCEPT ![p] = d]
    /\ local' = [local EXCEPT ![p] = loc]
    /\ nops' = [nops EXCEPT ![p] = @ + 1]
    /\ out' = NoOut
    /\ Shift
    /\ UNCHANGED <<now, req, pre, calls, sequential>>

(* ------------------------------ createUser ----------------------------- *)
\* (a request that would take the collection past MaxUsers is not sent)
createUser(p) ==
    /\ CanStart(p)
    /\ \E name \in Usernames :
        LET r == [NoReq EXCEPT !.op = "createUser", !.username = name] IN
        IF Len(name) < MinUsernameLen
        THEN Reject(p, r, "ERROR_USER_NAME")
        ELSE /\ Len(users) + Cardinality({q \in Procs : req[q].op = "createUser"}) < MaxUsers
             /\ Issue(p, r, "findOne", NullDate)

\* await User.findOne({username})
createUser_findOne(p) ==
    /\ pc[p] = "findOne"
    /\ UNCHANGED users
    /\ IF FindOneByUsername(users, req[p].username)
       THEN Respond(p, "ERROR_EXIST_USER", NoPayload)
       ELSE Await(p, "create", NullDate, NoLocal)

\* await User.create({username}): the unique index rejects a duplicate (E11000)
createUser_create(p) ==
    /\ pc[p] = "create"
    /\ IF DuplicateKey(users, req[p].username)
       THEN /\ UNCHANGED users
            /\ Respond(p, "E11000", NoPayload)
       ELSE LET user == NewUser(NthObjectId(Len(users) + 1), req[p].username) IN
            /\ users' = Append(users, user)
            /\ Respond(p, "CREATED", user)

(* ------------------------------ followUser ----------------------------- *)
\* the validation shared by followUser, unfollowUser and getCommonFollowers
ValidateIds_NoSameTest(a, b) ==
    IF ~isValidObjectId(a) \/ ~isValidObjectId(b) THEN "ERROR_VALID_ID" ELSE "ok"
ValidateIds_FirstOnly(a, b) ==
    IF ~isValidObjectId(a) THEN "ERROR_VALID_ID"
    ELSE IF a = b THEN "ERROR_IDS_SAME"
    ELSE "ok"
ValidateIds(a, b) ==
    IF ~isValidObjectId(a) \/ ~isValidObjectId(b) THEN "ERROR_VALID_ID"
    ELSE IF a = b THEN "ERROR_IDS_SAME"
    ELSE "ok"

followUser(p) ==
    /\ CanStart(p)
    /\ \E a \in KnownTexts, b \in KnownTextsAnyCase :
        LET r == [NoReq EXCEPT !.op = "followUser", !.userId = a, !.otherId = b] IN
        IF ValidateIds(a, b) # "ok"
        THEN Reject(p, r, ValidateIds(a, b))
        ELSE Issue(p, r, "pushFollowings", now)

\* first findOneAndUpdate: $push into the follower's followings
followUser_followings_Refresh(p) ==
    /\ pc[p] = "pushFollowings"
    /\ LET uid == CastObjectId(req[p].userId)
           fid == CastObjectId(req[p].otherId)
           i == IndexOf(users, uid)
       IN  IF i # 0 /\ MatchPushFollowings(users[i], uid, fid)
           THEN /\ users' = [users EXCEPT ![i] = PushFollowings(@, fid, date[p])]
                /\ Await(p, "pushFollowers", now, NoLocal)
           ELSE /\ users' = IF i = 0 THEN users
                            ELSE [users EXCEPT ![i].followings =
                                     [k \in 1..Len(users[i].followings) |->
                                         IF users[i].followings[k].followingId = fid
                                         THEN [followingId |-> fid, date |-> date[p]]
                                         ELSE users[i].followings[k]]]
                /\ Respond(p, "ERROR_UPDATE_FOLLOWING", NoPayload)
followUser_followings_NoThrow(p) ==
    /\ pc[p] = "pushFollowings"
    /\ LET uid == CastObjectId(req[p].userId)
           fid == CastObjectId(req[p].otherId)
           i == IndexOf(users, uid)
       IN  /\ users' = IF i # 0 /\ MatchPushFollowings(users[i], uid, fid)
                        THEN [users EXCEPT ![i] = PushFollowings(@, fid, date[p])]
                        ELSE users
           /\ Await(p, "pushFollowers", now, NoLocal)
followUser_followings(p) ==
    /\ pc[p] = "pushFollowings"
    /\ LET uid == CastObjectId(req[p].userId)
           fid == CastObjectId(req[p].otherId)
           i == IndexOf(users, uid)
       IN  IF i # 0 /\ MatchPushFollowings(users[i], uid, fid)
           THEN /\ users' = [users EXCEPT ![i] = PushFollowings(@, fid, date[p])]
                /\ Await(p, "pushFollowers", now, NoLocal)
           ELSE /\ UNCHANGED users
                /\ Respond(p, "ERROR_UPDATE_FOLLOWING", NoPayload)

\* second findOneAndUpdate: $push into the followee's followers
followUser_followers_Rollback(p) ==
    /\ pc[p] = "pushFollowers"
    /\ LET uid == CastObjectId(req[p].userId)
           fid == CastObjectId(req[p].otherId)
           i == IndexOf(users, fid)
           j == IndexOf(users, uid)
       IN  IF i # 0 /\ MatchPushFollowers(users[i], fid, uid)
           THEN /\ users' = [users EXCEPT ![i] = PushFollowers(@, uid, date[p])]
                /\ Respond(p, "UPDATE_FOLLOW", NoPayload)
           ELSE /\ users' = IF j = 0 THEN users
                            ELSE [users EXCEPT ![j] = PullFollowings(@, fid)]
                /\ Respond(p, "ERROR_UPDATE_FOLLOWERS", NoPayload)
followUser_followers(p) ==
    /\ pc[p] = "pushFollowers"
    /\ LET uid == CastObjectId(req[p].userId)
           fid == CastObjectId(req[p].otherId)
           i == IndexOf(users, fid)
       IN  IF i # 0 /\ MatchPushFollowers(users[i], fid, uid)
           THEN /\ users' = [users EXCEPT ![i] = PushFollowers(@, uid, date[p])]
                /\ Respond(p, "UPDATE_FOLLOW", NoPayload)
           ELSE /\ UNCHANGED users
                /\ Respond(p, "ERROR_UPDATE_FOLLOWERS", NoPayload)

(* ----------------------------- unfollowUser ---------------------------- *)
unfollowUser(p) ==
    /\ CanStart(p)
    /\ \E a \in KnownTexts, b \in KnownTextsAnyCase :
        LET r == [NoReq EXCEPT !.op = "unfollowUser", !.userId = a, !.otherId = b] IN
        IF ValidateIds(a, b) # "ok"
        THEN Reject(p, r, ValidateIds(a, b))
        ELSE Issue(p, r, "pullFollowings", NullDate)

\* first findOneAndUpdate: $pull from the follower's followings
unfollowUser_followings(p) ==
    /\ pc[p] = "pullFollowings"
    /\ LET uid == CastObjectId(req[p].userId)
           fid == CastObjectId(req[p].otherId)
           i == IndexOf(users, uid)
       IN  IF i # 0 /\ MatchPullFollowings(users[i], uid, fid)
           THEN /\ users' = [users EXCEPT ![i] = PullFollowings(@, fid)]
                /\ Await(p, "pullFollowers", NullDate, NoLocal)
           ELSE /\ UNCHANGED users
                /\ Respond(p, "ERROR_UPDATE_UNFOLLOWING", NoPayload)

\* second findOneAndUpdate: $pull from the followee's followers
unfollowUser_followers(p) ==
    /\ pc[p] = "pullFollowers"
    /\ LET uid == CastObjectId(req[p].userId)
           fid == CastObjectId(req[p].otherId)
           i == IndexOf(users, fid)
       IN  IF i # 0 /\ MatchPullFollowers(users[i], fid, uid)
           THEN /\ users' = [users EXCEPT ![i] = PullFollowers(@, uid)]
                /\ Respond(p, "UPDATE_UNFOLLOW", NoPayload)
           ELSE /\ UNCHANGED users
                /\ Respond(p, "ERROR_UPDATE_UNFOLLOWERS", NoPayload)

(* ------------------------------ getAllUsers ---------------------------- *)
\* { $project: { _id: 1, username: 1 } }
ProjectIdUsername(docs) ==
    [i \in 1..Len(docs) |-> [_id |-> docs[i]._id, username |-> docs[i].username]]

\* $lookup from users with $match $in: the documents whose _id is in ids
Lookup_All(store, ids) == ProjectIdUsername(store)
Lookup(store, ids) == ProjectIdUsername(SelectSeq(store, LAMBDA u : u._id \in ids))

AggregateAll(store) ==
    [i \in 1..Len(store) |->
        [_id |-> store[i]._id, username |-> store[i].username,
         followersDetails |-> Lookup(store, FollowerIds(store[i])),
         followingsDetails |-> Lookup(store, FollowingIds(store[i]))]]

getAllUsers(p) ==
    /\ CanStart(p)
    /\ Issue(p, [NoReq EXCEPT !.op = "getAllUsers"], "aggregateAll", NullDate)

\* await User.aggregate([...])
getAllUsers_aggregate(p) ==
    /\ pc[p] = "aggregateAll"
    /\ UNCHANGED users
    /\ Respond(p, "ALL_USER", AggregateAll(users))

(* ------------------------ getFollowersCountDaily ----------------------- *)
\* $dateToString '%Y-%m-%d': the calendar day of a timestamp
DateToString(d) == d \div TicksPerDay

RECURSIVE SortDescending(_)
SortDescending(S) ==
    IF S = {} THEN << >>
    ELSE LET m == CHOOSE x \in S : \A y \in S : x >= y
         IN  <<m>> \o SortDescending(S \ {m})

RECURSIVE SortAscending(_)
SortAscending(S) ==
    IF S = {} THEN << >>
    ELSE LET m == CHOOSE x \in S : \A y \in S : x <= y
         IN  <<m>> \o SortAscending(S \ {m})

\* $match, $unwind followers, $group by day with $sum 1, $sort, $project
AggregateDaily(store, oid) ==
    LET i == IndexOf(store, oid)
        unwound == IF i = 0 THEN << >> ELSE store[i].followers
        days == {DateToString(unwound[k].date) : k \in 1..Len(unwound)}
        sorted == SortAscending(days)
    IN  [k \in 1..Len(sorted) |->
            [date |-> sorted[k],
             count |-> Cardinality({j \in 1..Len(unwound) :
                                      DateToString(unwound[j].date) = sorted[k]})]]

getFollowersCountDaily(p) ==
    /\ CanStart(p)
    /\ \E a \in KnownTexts :
        LET r == [NoReq EXCEPT !.op = "getFollowersCountDaily", !.userId = a] IN
        IF ~isValidObjectId(a)
        THEN Reject(p, r, "ERROR_VALID_ID")
        ELSE Issue(p, r, "aggregateDaily", NullDate)

\* await User.aggregate([...])
getFollowersCountDaily_aggregate(p) ==
    /\ pc[p] = "aggregateDaily"
    /\ UNCHANGED users
    /\ Respond(p, "SHOW_FOLLOWERS", AggregateDaily(users, CastObjectId(req[p].userId)))

(* -------------------------- getCommonFollowers ------------------------- *)
\* User.findById(id, 'followers'): the document's followers, or null
FindById_Present(store, oid) ==
    IF IndexOf(store, oid) = 0
    THEN [found |-> TRUE, followers |-> << >>]
    ELSE [found |-> TRUE, followers |-> store[IndexOf(store, oid)].followers]
FindById(store, oid) ==
    IF IndexOf(store, oid) = 0
    THEN [found |-> FALSE, followers |-> << >>]
    ELSE [found |-> TRUE, followers |-> store[IndexOf(store, oid)].followers]

\* user.followers.map(f => f.followId.toString())
FollowerTexts(doc) == [k \in 1..Len(doc.followers) |-> ToHexString(doc.followers[k].followId)]

\* followers1.filter(f => followers2.includes(f))
CommonFollowers_Left(f1, f2) == f1
CommonFollowers(f1, f2) == SelectSeq(f1, LAMBDA t : t \in Range(f2))

\* User.find({ _id: { $in: texts } }, 'username')
FindIn(store, texts) == Lookup(store, {CastObjectId(t) : t \in Range(texts)})

getCommonFollowers(p) ==
    /\ CanStart(p)
    /\ \E a \in KnownTexts, b \in KnownTexts :
        LET r == [NoReq EXCEPT !.op = "getCommonFollowers", !.userId = a, !.otherId = b] IN
        IF ValidateIds(a, b) # "ok"
        THEN Reject(p, r, ValidateIds(a, b))
        ELSE Issue(p, r, "findById1", NullDate)

\* const user1 = await User.findById(userId1, 'followers')
getCommonFollowers_user1(p) ==
    /\ pc[p] = "findById1"
    /\ UNCHANGED users
    /\ Await(p, "findById2", NullDate, FindById(users, CastObjectId(req[p].userId)))

\* const user2 = await User.findById(userId2, 'followers'), then the intersection
getCommonFollowers_user2(p) ==
    /\ pc[p] = "findById2"
    /\ UNCHANGED users
    /\ LET user1 == local[p]
           user2 == FindById(users, CastObjectId(req[p].otherId))
       IN  IF ~user1.found \/ ~user2.found
           THEN Respond(p, "NOT_FOUND", NoPayload)
           ELSE Await(p, "findCommon", NullDate,
                      CommonFollowers(FollowerTexts(user1), FollowerTexts(user2)))

\* await User.find({ _id: { $in: commonFollowers } }, 'username')
getCommonFollowers_find(p) ==
    /\ pc[p] = "findCommon"
    /\ UNCHANGED users
    /\ Respond(p, "COMMON_FOLLOWERS", FindIn(users, local[p]))

\* what getCommonFollowers answers for the identifiers a, b when the three
\* reads see the same collection
MutualOutcome(store, a, b) ==
    LET user1 == FindById(store, CastObjectId(a))
        user2 == FindById(store, CastObjectId(b))
    IN  IF ValidateIds(a, b) # "ok"
        THEN [msg |-> ValidateIds(a, b), data |-> NoPayload]
        ELSE IF ~user1.found \/ ~user2.found
        THEN [msg |-> "NOT_FOUND", data |-> NoPayload]
        ELSE [msg |-> "COMMON_FOLLOWERS",
              data |-> FindIn(store, CommonFollowers(FollowerTexts(user1),
                                                     FollowerTexts(user2)))]

(* -------------------------------- clock -------------------------------- *)
\* time passes
Tick ==
    /\ now < MaxClock
    /\ now' = now + 1
    /\ out' = NoOut
    /\ Shift
    /\ UNCHANGED <<users, pc, req, date, local, nops, pre, calls, sequential>>

Next ==
    \/ \E p \in Procs : createUser(p)
    \/ \E p \in Procs : createUser_findOne(p)
    \/ \E p \in Procs : createUser_create(p)
    \/ \E p \in Procs : followUser(p)
    \/ \E p \in Procs : followUser_followings(p)
    \/ \E p \in Procs : followUser_followers(p)
    \/ \E p \in Procs : unfollowUser(p)
    \/ \E p \in Procs : unfollowUser_followings(p)
    \/ \E p \in Procs : unfollowUser_followers(p)
    \/ \E p \in Procs : getAllUsers(p)
    \/ \E p \in Procs : getAllUsers_aggregate(p)
    \/ \E p \in Procs : getFollowersCountDaily(p)
    \/ \E p \in Procs : getFollowersCountDaily_aggregate(p)
    \/ \E p \in Procs : getCommonFollowers(p)
    \/ \E p \in Procs : getCommonFollowers_user1(p)
    \/ \E p \in Procs : getCommonFollowers_user2(p)
    \/ \E p \in Procs : getCommonFollowers_find(p)
    \/ Tick

Spec == Init /\ [][Next]_vars
SeqSpec == SeqInit /\ [][Next]_vars

(* ----------------------------- store errors ---------------------------- *)
\* the awaited store request rejects (connection lost, server error): nothing
\* is written, the catch block hands the error to next(err) and errorHandler
\* answers the caller
storeError_Swallowed(p) ==
    /\ pc[p] # "idle"
    /\ pc' = [pc EXCEPT ![p] = "lost"]
    /\ out' = NoOut
    /\ Shift
    /\ UNCHANGED <<users, now, req, date, local, nops, pre, calls, sequential>>
storeError(p) ==
    /\ pc[p] # "idle"
    /\ UNCHANGED users
    /\ Respond(p, "STORE_ERROR", NoPayload)

\* the store answers the pending request of slot p, with a result or an error
StoreAnswers(p) ==
    \/ createUser_findOne(p)
    \/ createUser_create(p)
    \/ followUser_followings(p)
    \/ followUser_followers(p)
    \/ unfollowUser_followings(p)
    \/ unfollowUser_followers(p)
    \/ getAllUsers_aggregate(p)
    \/ getFollowersCountDaily_aggregate(p)
    \/ getCommonFollowers_user1(p)
    \/ getCommonFollowers_user2(p)
    \/ getCommonFollowers_find(p)
    \/ storeError(p)

FaultNext ==
    \/ Next
    \/ \E p \in Procs : storeError(p)

\* every store request is eventually answered
StoreFairness == \A p \in Procs : WF_vars(StoreAnswers(p))

\* one request at a time against a store that may fail
SeqFaultSpec == SeqInit /\ [][FaultNext]_vars

(* ------------------------- a collection at rest ------------------------ *)
\* A collection as earlier requests left it: users in creation order, and the
\* entries of the follows in E (pairs <<follower, followee>>), every follow of
\* follower x carrying the date when[x].
BuiltNames == <<"abc", "xyz", "abcd", "wxyz", "abcde">>

BuiltIds(n) == {NthObjectId(k) : k \in 1..n}

BuiltFollowers(E, when, y) ==
    LET xs == SortAscending({e[1] : e \in {d \in E : d[2] = y}})
    IN  [k \in 1..Len(xs) |-> [followId |-> xs[k], date |-> when[xs[k]]]]

BuiltFollowings(E, when, x) ==
    LET ys == SortAscending({e[2] : e \in {d \in E : d[1] = x}})
    IN  [k \in 1..Len(ys) |-> [followingId |-> ys[k], date |-> when[x]]]

BuiltStore(n, E, when) ==
    [k \in 1..n |->
        [_id |-> NthObjectId(k), username |-> BuiltNames[k],
         followers |-> BuiltFollowers(E, when, NthObjectId(k)),
         followings |-> BuiltFollowings(E, when, NthObjectId(k))]]

\* the follows that can have happened among the first n users
BuiltEdges(n) == {e \in BuiltIds(n) \X BuiltIds(n) : e[1] # e[2]}

\* the queries are made on a collection of QueryUsers users that no request
\* changes meanwhile; one more request is received
QueryInit ==
    /\ \E E \in SUBSET BuiltEdges(QueryUsers) :
           \E when \in [BuiltIds(QueryUsers) -> 0..QueryClock] :
               users = BuiltStore(QueryUsers, E, when)
    /\ now = QueryClock
    /\ pc = [p \in Procs |-> "idle"]
    /\ req = [p \in Procs |-> NoReq]
    /\ date = [p \in Procs |-> NullDate]
    /\ local = [p \in Procs |-> NoLocal]
    /\ nops = [p \in Procs |-> 0]
    /\ pre = [p \in Procs |-> NoPre]
    /\ calls = MaxCalls - 1
    /\ out = NoOut
    /\ hist = NoOut
    /\ sequential = TRUE
    /\ past = NoPast

QueryNext ==
    \/ \E p \in Procs : getAllUsers(p)
    \/ \E p \in Procs : getAllUsers_aggregate(p)
    \/ \E p \in Procs : getFollowersCountDaily(p)
    \/ \E p \in Procs : getFollowersCountDaily_aggregate(p)
    \/ \E p \in Procs : getCommonFollowers(p)
    \/ \E p \in Procs : getCommonFollowers_user1(p)
    \/ \E p \in Procs : getCommonFollowers_user2(p)
    \/ \E p \in Procs : getCommonFollowers_find(p)

QuerySpec == QueryInit /\ [][QueryNext]_vars

\* two more concurrent requests on a collection of at most MaxUsers users with
\* at most the follow of the second user by the first, against a store that
\* may fail but answers every request
LiveInit ==
    /\ \E n \in 0..MaxUsers :
           \E E \in SUBSET (BuiltEdges(n) \cap {<<NthObjectId(1), NthObjectId(2)>>}) :
               users = BuiltStore(n, E, [o \in BuiltIds(n) |-> 0])
    /\ now = 0
    /\ pc = [p \in Procs |-> "idle"]
    /\ req = [p \in Procs |-> NoReq]
    /\ date = [p \in Procs |-> NullDate]
    /\ local = [p \in Procs |-> NoLocal]
    /\ nops = [p \in Procs |-> 0]
    /\ pre = [p \in Procs |-> NoPre]
    /\ calls = MaxCalls - 2
    /\ out = NoOut
    /\ hist = NoOut
    /\ sequential = FALSE
    /\ past = NoPast

LiveSpec == LiveInit /\ [][FaultNext]_vars /\ StoreFairness

\* two more concurrent requests, recorded, on a collection of at most MaxUsers
\* users with at most the follow of the second user by the first (the mirror
\* holds for every pair)
RaceInit ==
    /\ \E n \in 0..MaxUsers :
           \E E \in SUBSET (BuiltEdges(n) \cap {<<NthObjectId(1), NthObjectId(2)>>}) :
               users = BuiltStore(n, E, [o \in BuiltIds(n) |-> 0])
    /\ now = 0
    /\ pc = [p \in Procs |-> "idle"]
    /\ req = [p \in Procs |-> NoReq]
    /\ date = [p \in Procs |-> NullDate]
    /\ local = [p \in Procs |-> NoLocal]
    /\ nops = [p \in Procs |-> 0]
    /\ pre = [p \in Procs |-> NoPre]
    /\ calls = MaxCalls - 2
    /\ out = NoOut
    /\ hist = NoOut
    /\ sequential = FALSE
    /\ past = EmptyPast

RaceSpec == RaceInit /\ [][Next]_vars

\* SnapshotCalls concurrent follow, unfollow and getCommonFollowers requests,
\* recorded, on a collection of QueryUsers users in which the last user follows
\* the first
SnapshotInit ==
    /\ users = BuiltStore(QueryUsers, {<<NthObjectId(QueryUsers), NthObjectId(1)>>},
                          [o \in BuiltIds(QueryUsers) |-> 0])
    /\ now = 0
    /\ pc = [p \in Procs |-> "idle"]
    /\ req = [p \in Procs |-> NoReq]
    /\ date = [p \in Procs |-> NullDate]
    /\ local = [p \in Procs |-> NoLocal]
    /\ nops = [p \in Procs |-> 0]
    /\ pre = [p \in Procs |-> NoPre]
    /\ calls = MaxCalls - SnapshotCalls
    /\ out = NoOut
    /\ hist = NoOut
    /\ sequential = FALSE
    /\ past = EmptyPast

SnapshotNext ==
    \/ \E p \in Procs : followUser(p)
    \/ \E p \in Procs : followUser_followings(p)
    \/ \E p \in Procs : followUser_followers(p)
    \/ \E p \in Procs : unfollowUser(p)
    \/ \E p \in Procs : unfollowUser_followings(p)
    \/ \E p \in Procs : unfollowUser_followers(p)
    \/ \E p \in Procs : getCommonFollowers(p)
    \/ \E p \in Procs : getCommonFollowers_user1(p)
    \/ \E p \in Procs : getCommonFollowers_user2(p)
    \/ \E p \in Procs : getCommonFollowers_find(p)

SnapshotSpec == SnapshotInit /\ [][SnapshotNext]_vars

(* ======================================================================= *)
(* The claims                                                              *)
(* ======================================================================= *)
HasUser(store, oid) == oid \in UserIds(store)
UserOf(store, oid) == store[IndexOf(store, oid)]

\* the entries of a list that carry this id
FollowingEntries(u, fid) == {k \in 1..Len(u.followings) : u.followings[k].followingId = fid}
FollowerEntries(u, uid) == {k \in 1..Len(u.followers) : u.followers[k].followId = uid}

InFollowings(store, uid, fid) ==
    HasUser(store, uid) /\ FollowingEntries(UserOf(store, uid), fid) # {}
InFollowers(store, fid, uid) ==
    HasUser(store, fid) /\ FollowerEntries(UserOf(store, fid), uid) # {}

\* a text that denotes an ObjectId
WellFormed(t) == Len(t) = IdLen /\ \A i \in 1..Len(t) : t[i] \in HexChars

\* the two identifiers of a response's request, as ObjectIds
OutUser == CastObjectId(out.req.userId)
OutOther == CastObjectId(out.req.otherId)
HistUser == CastObjectId(hist.req.userId)
HistOther == CastObjectId(hist.req.otherId)

ReachedStore(r) == r.nops > 0

\* C1: right after a follow(u, f) that returned success, f is in u.followings
\* and u is in f.followers, each entry with a non-null date (any interleaving).
\* Stated for two different users, so that it does not rest on a self-edge.
C1_MirrorAfterFollow ==
    (out.msg = "UPDATE_FOLLOW" /\ OutUser # OutOther) =>
        /\ InFollowings(users, OutUser, OutOther)
        /\ InFollowers(users, OutOther, OutUser)
        /\ \A k \in FollowingEntries(UserOf(users, OutUser), OutOther) :
               UserOf(users, OutUser).followings[k].date # NullDate
        /\ \A k \in FollowerEntries(UserOf(users, OutOther), OutUser) :
               UserOf(users, OutOther).followers[k].date # NullDate

\* no follow or unfollow is between its first and its second update
Quiescent == \A p \in Procs : pc[p] \notin {"pushFollowers", "pullFollowers"}

\* C2: in every quiescent state, for any two users A and B, B is in
\* A.followings exactly when A is in B.followers.
\* Stated for two different users, so that it does not rest on a self-edge.
C2_MirrorWhenQuiescent ==
    Quiescent =>
        \A a \in UserIds(users) : \A b \in UserIds(users) \ {a} :
            InFollowings(users, a, b) <=> InFollowers(users, b, a)

\* C3: no followings list holds two entries for one followee and no followers
\* list holds two entries for one follower, under any interleaving.
C3_EdgeUniqueness ==
    \A i \in 1..Len(users) :
        /\ \A k, l \in 1..Len(users[i].followings) :
               users[i].followings[k].followingId = users[i].followings[l].followingId
                   => k = l
        /\ \A k, l \in 1..Len(users[i].followers) :
               users[i].followers[k].followId = users[i].followers[l].followId => k = l

\* C3 witness: two follow requests for the same edge are in flight, one has
\* pushed its followings entry and the other's conditional push is pending.
C3_Witness ==
    \E p, q \in Procs :
        /\ pc[p] = "pushFollowers" /\ pc[q] = "pushFollowings"
        /\ req[q].op = "followUser"
        /\ CastObjectId(req[p].userId) = CastObjectId(req[q].userId)
        /\ CastObjectId(req[p].otherId) = CastObjectId(req[q].otherId)
        /\ InFollowings(users, CastObjectId(req[p].userId), CastObjectId(req[p].otherId))

\* C4: no user's followings list and no user's followers list contains the
\* user's own id, whatever well-formed identifiers the requests carried.
C4_NoSelfEdges ==
    \A i \in 1..Len(users) :
        /\ users[i]._id \notin FollowingIds(users[i])
        /\ users[i]._id \notin FollowerIds(users[i])

\* follow(u, f) answered, then the same follow(u, f) answered, nothing between,
\* the first one starting with both users stored and the edge absent
TwiceFollow ==
    /\ sequential
    /\ hist.req.op = "followUser" /\ ReachedStore(hist)
    /\ out.req.op = "followUser" /\ ReachedStore(out)
    /\ OutUser = HistUser /\ OutOther = HistOther
    /\ HasUser(hist.pre, HistUser) /\ HasUser(hist.pre, HistOther)
    /\ ~InFollowings(hist.pre, HistUser, HistOther)
    /\ ~InFollowers(hist.pre, HistOther, HistUser)

\* C5: follow(u, f) twice in sequence from a state without the edge: the first
\* call succeeds, the second fails with ERROR_UPDATE_FOLLOWING, and exactly one
\* entry for f is in u.followings and exactly one for u in f.followers.
C5_IdempotentFollow ==
    TwiceFollow =>
        /\ hist.msg = "UPDATE_FOLLOW"
        /\ out.msg = "ERROR_UPDATE_FOLLOWING"
        /\ Cardinality(FollowingEntries(UserOf(users, OutUser), OutOther)) = 1
        /\ Cardinality(FollowerEntries(UserOf(users, OutOther), OutUser)) = 1

C5_Witness == TwiceFollow /\ out.msg = "ERROR_UPDATE_FOLLOWING"

\* follow(u, f) answered, then unfollow(u, f) answered, nothing between, the
\* follow starting with both users stored and the edge absent
FollowThenUnfollow ==
    /\ sequential
    /\ hist.req.op = "followUser" /\ ReachedStore(hist)
    /\ out.req.op = "unfollowUser" /\ ReachedStore(out)
    /\ OutUser = HistUser /\ OutOther = HistOther
    /\ HasUser(hist.pre, HistUser) /\ HasUser(hist.pre, HistOther)
    /\ ~InFollowings(hist.pre, HistUser, HistOther)
    /\ ~InFollowers(hist.pre, HistOther, HistUser)

\* C6: follow(u, f) then unfollow(u, f) in sequence both succeed and leave every
\* user's lists, as sets of ids, as they were before the follow; the edge is
\* absent from u.followings and from f.followers.
C6_RoundTrip ==
    FollowThenUnfollow =>
        /\ hist.msg = "UPDATE_FOLLOW"
        /\ out.msg = "UPDATE_UNFOLLOW"
        /\ Len(users) = Len(hist.pre)
        /\ \A i \in 1..Len(users) :
               /\ users[i]._id = hist.pre[i]._id
               /\ users[i].username = hist.pre[i].username
               /\ FollowingIds(users[i]) = FollowingIds(hist.pre[i])
               /\ FollowerIds(users[i]) = FollowerIds(hist.pre[i])
        /\ ~InFollowings(users, OutUser, OutOther)
        /\ ~InFollowers(users, OutOther, OutUser)

C6_Witness == FollowThenUnfollow /\ out.msg = "UPDATE_UNFOLLOW"

\* C7 as claimed: follow(u, u) fails with ERROR_IDS_SAME for every input u,
\* and performs no store write.
C7_SelfFollowAnyInput ==
    (out.req.op = "followUser" /\ out.req.userId = out.req.otherId) =>
        (out.msg = "ERROR_IDS_SAME" /\ out.nops = 0 /\ users = out.pre)

\* C7 amended: follow(u, u) with a well-formed u fails with ERROR_IDS_SAME, and
\* with a malformed u with ERROR_VALID_ID, before any store request and writing
\* nothing; no such request ever reaches the store.
C7_SelfFollowWellFormed ==
    /\ (out.req.op = "followUser" /\ out.req.userId = out.req.otherId) =>
           /\ out.msg = IF WellFormed(out.req.userId) THEN "ERROR_IDS_SAME"
                        ELSE "ERROR_VALID_ID"
           /\ out.nops = 0
           /\ users = out.pre
    /\ \A p \in Procs : req[p].op = "followUser" => req[p].userId # req[p].otherId

C7_Witness ==
    /\ out.req.op = "followUser" /\ out.req.userId = out.req.otherId
    /\ WellFormed(out.req.userId) /\ HasUser(users, OutUser)
    /\ out.msg = "ERROR_IDS_SAME"

InputErrors == {"ERROR_USER_NAME", "ERROR_VALID_ID", "ERROR_IDS_SAME"}

\* the inputs of a request pass the operation's input rules
InputOk(r) ==
    CASE r.op = "createUser" -> Len(r.username) >= 3
      [] r.op \in {"followUser", "unfollowUser", "getCommonFollowers"} ->
             WellFormed(r.userId) /\ WellFormed(r.otherId) /\ r.userId # r.otherId
      [] r.op = "getFollowersCountDaily" -> WellFormed(r.userId)
      [] OTHER -> TRUE

\* C8: a request that fails with an input error has issued no store request and
\* left the collection as it was; a request with bad input never reaches the store.
C8_InputErrorsBeforeStore ==
    /\ out.msg \in InputErrors => (out.nops = 0 /\ users = out.pre)
    /\ out.msg # "none" /\ ~InputOk(out.req) => out.msg \in InputErrors
    /\ \A p \in Procs : pc[p] # "idle" => InputOk(req[p])

C8_Witness ==
    /\ out.msg = "ERROR_VALID_ID" /\ out.req.op = "unfollowUser"
    /\ \E i \in 1..Len(users) : users[i].followings # << >>

\* C9: no two stored users have the same username, also when two createUser
\* requests with one username both pass the findOne lookup before either creates.
C9_UsernameUnique ==
    \A i, j \in 1..Len(users) : users[i].username = users[j].username => i = j

\* C9 witness: the second of two racing creates was refused by the unique index
C9_Witness == out.req.op = "createUser" /\ out.msg = "E11000"

\* C10: createUser(name) with a name of 3 or more characters, served alone:
\* it succeeds exactly when no stored user has the name, then adds one user with
\* empty lists and returns it; otherwise it fails with ERROR_EXIST_USER and the
\* stored users are unchanged.
C10_CreateUserOutcomes ==
    (sequential /\ out.req.op = "createUser" /\ Len(out.req.username) >= 3) =>
        IF \E i \in 1..Len(out.pre) : out.pre[i].username = out.req.username
        THEN out.msg = "ERROR_EXIST_USER" /\ users = out.pre
        ELSE /\ out.msg = "CREATED"
             /\ Len(users) = Len(out.pre) + 1
             /\ SubSeq(users, 1, Len(out.pre)) = out.pre
             /\ users[Len(users)].username = out.req.username
             /\ users[Len(users)].followers = << >>
             /\ users[Len(users)].followings = << >>
             /\ users[Len(users)]._id \notin UserIds(out.pre)
             /\ out.data = users[Len(users)]

C10_Witness ==
    /\ sequential /\ out.req.op = "createUser" /\ out.msg = "ERROR_EXIST_USER"
    /\ hist.msg = "CREATED"

(* ------------------------- C11..C20 ------------------------------------ *)
\* the {_id, username} view of a stored user
ViewOf(store, oid) == [_id |-> oid, username |-> UserOf(store, oid).username]

\* positions of a list of views that show this id
ViewsOf(views, oid) == {k \in 1..Len(views) : views[k]._id = oid}

\* the request of the response has two well-formed, textually different ids
OutPairOk ==
    /\ WellFormed(out.req.userId) /\ WellFormed(out.req.otherId)
    /\ out.req.userId # out.req.otherId

\* C11: getCommonFollowers(a, b) with well-formed distinct ids on a collection
\* that does not change answers NOT_FOUND when a or b is not stored; otherwise it
\* succeeds with exactly one {_id, username} view for each id that is in both
\* followers lists and no other view (an empty list is a success).
C11_MutualFollowers ==
    (out.req.op = "getCommonFollowers" /\ OutPairOk) =>
        IF ~HasUser(users, OutUser) \/ ~HasUser(users, OutOther)
        THEN out.msg = "NOT_FOUND"
        ELSE LET both == FollowerIds(UserOf(users, OutUser))
                             \cap FollowerIds(UserOf(users, OutOther))
             IN  /\ out.msg = "COMMON_FOLLOWERS"
                 /\ \A o \in both : Cardinality(ViewsOf(out.data, o)) = 1
                 /\ \A k \in 1..Len(out.data) :
                        /\ out.data[k]._id \in both
                        /\ out.data[k] = ViewOf(users, out.data[k]._id)

\* C11 witness: a non-empty answer for two users, one of whom also has a
\* follower that the other has not
C11_Witness ==
    /\ out.req.op = "getCommonFollowers" /\ out.msg = "COMMON_FOLLOWERS"
    /\ out.data # << >>
    /\ FollowerIds(UserOf(users, OutUser)) # FollowerIds(UserOf(users, OutOther))

\* C12: on one collection, getCommonFollowers(a, b) and getCommonFollowers(b, a)
\* with well-formed distinct ids have the same outcome kind and, on success,
\* the same set of users; the handler's answer for (a, b) is MutualOutcome.
C12_MutualSymmetry ==
    (out.req.op = "getCommonFollowers" /\ OutPairOk) =>
        LET ab == MutualOutcome(users, out.req.userId, out.req.otherId)
            ba == MutualOutcome(users, out.req.otherId, out.req.userId)
        IN  /\ out.msg = ab.msg /\ out.data = ab.data
            /\ ba.msg = ab.msg
            /\ Range(ba.data) = Range(ab.data)

\* C12 witness: a successful non-empty answer for two users with different
\* followers lists
C12_Witness ==
    /\ out.req.op = "getCommonFollowers" /\ out.msg = "COMMON_FOLLOWERS"
    /\ Len(out.data) = 1
    /\ UserOf(users, OutUser).followers # UserOf(users, OutOther).followers
    /\ Len(UserOf(users, OutUser).followers) = 2

\* the followers list the daily count is made of (none for an unknown id)
OutFollowers == IF HasUser(users, OutUser) THEN UserOf(users, OutUser).followers ELSE << >>

RECURSIVE SumCounts(_, _)
SumCounts(rows, n) == IF n = 0 THEN 0 ELSE SumCounts(rows, n - 1) + rows[n].count

\* C13: getFollowersCountDaily(u) on a collection that does not change succeeds
\* with one {date, count} row per calendar day among the dates of u.followers,
\* count being the number of entries of that day (the counts sum to the length
\* of u.followers), rows in strictly ascending day order; no followers gives an
\* empty list, a single follower one row with count 1.
C13_DailyCounts ==
    (out.req.op = "getFollowersCountDaily" /\ WellFormed(out.req.userId)) =>
        LET days == {DateToString(OutFollowers[k].date) : k \in 1..Len(OutFollowers)}
        IN  /\ out.msg = "SHOW_FOLLOWERS"
            /\ Len(out.data) = Cardinality(days)
            /\ \A k \in 1..Len(out.data) :
                   /\ out.data[k].date \in days
                   /\ out.data[k].count =
                          Cardinality({j \in 1..Len(OutFollowers) :
                              DateToString(OutFollowers[j].date) = out.data[k].date})
            /\ \A k, l \in 1..Len(out.data) : k < l => out.data[k].date < out.data[l].date
            /\ SumCounts(out.data, Len(out.data)) = Len(OutFollowers)
            /\ OutFollowers = << >> => out.data = << >>
            /\ Len(OutFollowers) = 1 =>
                   (Len(out.data) = 1 /\ out.data[1].count = 1)

\* C13 witness: two followers with different timestamps of one day are counted
\* in one row
C13_Witness ==
    /\ out.req.op = "getFollowersCountDaily" /\ out.msg = "SHOW_FOLLOWERS"
    /\ Len(out.data) = 1 /\ out.data[1].count = 2
    /\ OutFollowers[1].date # OutFollowers[2].date

\* C14 as claimed: getAllUsers returns one row per stored user, and a row's
\* followersDetails / followingsDetails hold exactly one view per id of the
\* user's followers / followings list.
C14_AllEdgesResolved ==
    out.msg = "ALL_USER" =>
        /\ Len(out.data) = Len(users)
        /\ \A i \in 1..Len(users) :
               /\ out.data[i]._id = users[i]._id
               /\ out.data[i].username = users[i].username
               /\ \A o \in FollowerIds(users[i]) :
                      Cardinality(ViewsOf(out.data[i].followersDetails, o)) = 1
               /\ \A o \in FollowingIds(users[i]) :
                      Cardinality(ViewsOf(out.data[i].followingsDetails, o)) = 1

\* C14 amended: one row per stored user; followersDetails / followingsDetails
\* hold exactly one view per id of the list that is the id of a stored user, and
\* no other view: an id of no stored user (left in followings by a follow of an
\* unknown user) has no view.
C14_StoredEdgesResolved ==
    out.msg = "ALL_USER" =>
        /\ Len(out.data) = Len(users)
        /\ \A i \in 1..Len(users) :
               /\ out.data[i]._id = users[i]._id
               /\ out.data[i].username = users[i].username
               /\ \A o \in FollowerIds(users[i]) \cap UserIds(users) :
                      Cardinality(ViewsOf(out.data[i].followersDetails, o)) = 1
               /\ \A o \in FollowingIds(users[i]) \cap UserIds(users) :
                      Cardinality(ViewsOf(out.data[i].followingsDetails, o)) = 1
               /\ \A k \in 1..Len(out.data[i].followersDetails) :
                      /\ out.data[i].followersDetails[k]._id \in FollowerIds(users[i])
                      /\ out.data[i].followersDetails[k] =
                             ViewOf(users, out.data[i].followersDetails[k]._id)
               /\ \A k \in 1..Len(out.data[i].followingsDetails) :
                      /\ out.data[i].followingsDetails[k]._id \in FollowingIds(users[i])
                      /\ out.data[i].followingsDetails[k] =
                             ViewOf(users, out.data[i].followingsDetails[k]._id)

\* C14 witness: the answer resolves a follow between two stored users
C14_Witness ==
    /\ out.msg = "ALL_USER"
    /\ \E i, j \in 1..Len(users) :
           /\ i # j
           /\ out.data[i].followingsDetails # << >>
           /\ out.data[j].followersDetails # << >>

\* slot p leaves the store request w in this step
Leaves(p, w) == pc[p] = w /\ pc'[p] # w
\* slot p comes to await the store request w in this step
Enters(p, w) == pc[p] # w /\ pc'[p] = w

\* C16: the second update of a follow (unfollow) is issued only in the step in
\* which the first update matched a document: the follower is stored and the
\* edge was absent from (present in) its followings, and the step wrote it;
\* when the first update matches nothing, the request is answered
\* ERROR_UPDATE_FOLLOWING (ERROR_UPDATE_UNFOLLOWING) after that one store
\* request, no second update is issued and the collection is unchanged.
C16_OrderingContract ==
    [][\A p \in Procs :
          LET uid == CastObjectId(req[p].userId)
              fid == CastObjectId(req[p].otherId)
          IN  /\ Enters(p, "pushFollowers") =>
                     /\ pc[p] = "pushFollowings"
                     /\ HasUser(users, uid) /\ ~InFollowings(users, uid, fid)
                     /\ InFollowings(users', uid, fid)
              /\ Enters(p, "pullFollowers") =>
                     /\ pc[p] = "pullFollowings"
                     /\ InFollowings(users, uid, fid)
                     /\ ~InFollowings(users', uid, fid)
              /\ (Leaves(p, "pushFollowings")
                    /\ ~(HasUser(users, uid) /\ ~InFollowings(users, uid, fid))) =>
                     /\ pc'[p] = "idle"
                     /\ out'.req = req[p] /\ out'.msg = "ERROR_UPDATE_FOLLOWING"
                     /\ out'.nops = 1
                     /\ users' = users
              /\ (Leaves(p, "pullFollowings") /\ ~InFollowings(users, uid, fid)) =>
                     /\ pc'[p] = "idle"
                     /\ out'.req = req[p] /\ out'.msg = "ERROR_UPDATE_UNFOLLOWING"
                     /\ out'.nops = 1
                     /\ users' = users]_vars

\* C16 witness: a follow of an edge that is already there was refused at its
\* first update, the other request still being between its two updates
C16_Witness ==
    /\ out.req.op = "followUser" /\ out.msg = "ERROR_UPDATE_FOLLOWING"
    /\ OutUser # OutOther
    /\ HasUser(users, OutOther)
    /\ InFollowings(users, OutUser, OutOther)
    /\ \E p \in Procs : pc[p] = "pushFollowers"

\* the response is that of a follow / unfollow that reached the store and was
\* answered by the handler, not by a store error
FollowAnswered ==
    /\ sequential /\ out.req.op = "followUser" /\ ReachedStore(out)
    /\ out.msg # "STORE_ERROR"
UnfollowAnswered ==
    /\ sequential /\ out.req.op = "unfollowUser" /\ ReachedStore(out)
    /\ out.msg # "STORE_ERROR"

\* the collection differs from before only by the entry for f appended to the
\* followings of u
OnlyFollowingsPushed(before, after, uid, fid) ==
    /\ Len(after) = Len(before)
    /\ \A i \in 1..Len(after) :
           IF before[i]._id = uid
           THEN \E d \in 0..MaxClock : after[i] = PushFollowings(before[i], fid, d)
           ELSE after[i] = before[i]

\* the collection differs from before only by the entry for f removed from the
\* followings of u
OnlyFollowingsPulled(before, after, uid, fid) ==
    /\ Len(after) = Len(before)
    /\ \A i \in 1..Len(after) :
           IF before[i]._id = uid
           THEN after[i] = PullFollowings(before[i], fid)
           ELSE after[i] = before[i]

\* C17: a follow(u, f) served alone whose first update matches (u stored, f not
\* in u.followings) and whose second matches nothing (f not stored, or u already
\* in f.followers) is answered ERROR_UPDATE_FOLLOWERS, and only then; the entry
\* for f stays in u.followings and nothing else, f.followers included, changes.
C17_FollowStepTwoFails ==
    /\ (/\ FollowAnswered
        /\ HasUser(out.pre, OutUser) /\ ~InFollowings(out.pre, OutUser, OutOther)
        /\ (~HasUser(out.pre, OutOther) \/ InFollowers(out.pre, OutOther, OutUser)))
           => out.msg = "ERROR_UPDATE_FOLLOWERS"
    /\ (sequential /\ out.msg = "ERROR_UPDATE_FOLLOWERS") =>
           /\ out.nops = 2
           /\ HasUser(out.pre, OutUser) /\ ~InFollowings(out.pre, OutUser, OutOther)
           /\ ~HasUser(out.pre, OutOther) \/ InFollowers(out.pre, OutOther, OutUser)
           /\ InFollowings(users, OutUser, OutOther)
           /\ OnlyFollowingsPushed(out.pre, users, OutUser, OutOther)

\* C17 witness: a follow of a well-formed id of no stored user
C17_Witness ==
    /\ sequential /\ out.msg = "ERROR_UPDATE_FOLLOWERS"
    /\ ~HasUser(users, OutOther)
    /\ hist.msg = "CREATED"

\* C18 as claimed: after an unfollow(u, f) answered ERROR_UPDATE_UNFOLLOWERS the
\* edge is on exactly one of u.followings and f.followers.
C18_UnfollowLeavesHalfEdge ==
    (sequential /\ out.msg = "ERROR_UPDATE_UNFOLLOWERS") =>
        (InFollowings(users, OutUser, OutOther) # InFollowers(users, OutOther, OutUser))

\* C18 amended: an unfollow(u, f) served alone whose first update matches and
\* whose second matches nothing is answered ERROR_UPDATE_UNFOLLOWERS; the entry
\* for f is removed from u.followings and not put back, nothing else changes,
\* and the edge is then on neither side.
C18_UnfollowStepTwoFails ==
    /\ (/\ UnfollowAnswered
        /\ InFollowings(out.pre, OutUser, OutOther)
        /\ ~InFollowers(out.pre, OutOther, OutUser))
           => out.msg = "ERROR_UPDATE_UNFOLLOWERS"
    /\ (sequential /\ out.msg = "ERROR_UPDATE_UNFOLLOWERS") =>
           /\ out.nops = 2
           /\ InFollowings(out.pre, OutUser, OutOther)
           /\ ~InFollowers(out.pre, OutOther, OutUser)
           /\ OnlyFollowingsPulled(out.pre, users, OutUser, OutOther)
           /\ ~InFollowings(users, OutUser, OutOther)
           /\ ~InFollowers(users, OutOther, OutUser)

\* C18 witness: both users stored, the half-edge left by a follow whose second
\* update met a store error, then the unfollow
C18_Witness ==
    /\ sequential /\ out.msg = "ERROR_UPDATE_UNFOLLOWERS"
    /\ OutUser # OutOther /\ HasUser(users, OutOther)
    /\ hist.msg = "STORE_ERROR" /\ hist.req.op = "followUser" /\ hist.nops = 2

ConflictErrors ==
    {"ERROR_UPDATE_FOLLOWING", "ERROR_UPDATE_FOLLOWERS",
     "ERROR_UPDATE_UNFOLLOWING", "ERROR_UPDATE_UNFOLLOWERS"}

\* C19 as claimed: a follow or unfollow served alone, its two users stored and
\* different, that fails with one of the four update errors leaves the
\* collection as it was.
C19_ConflictNoMutation ==
    (/\ sequential /\ out.msg \in ConflictErrors
     /\ OutUser # OutOther
     /\ HasUser(out.pre, OutUser) /\ HasUser(out.pre, OutOther))
        => users = out.pre

\* C19 amended: a follow or unfollow served alone that fails at its first
\* update (ERROR_UPDATE_FOLLOWING, ERROR_UPDATE_UNFOLLOWING) leaves the
\* collection as it was, dates included; one that fails at its second update
\* (ERROR_UPDATE_FOLLOWERS, ERROR_UPDATE_UNFOLLOWERS) leaves the write of its
\* first update and nothing else.
C19_FirstStepConflictNoMutation ==
    /\ (sequential /\ out.msg \in {"ERROR_UPDATE_FOLLOWING", "ERROR_UPDATE_UNFOLLOWING"})
           => (users = out.pre /\ out.nops = 1)
    /\ (sequential /\ out.msg = "ERROR_UPDATE_FOLLOWERS")
           => (users # out.pre /\ OnlyFollowingsPushed(out.pre, users, OutUser, OutOther))
    /\ (sequential /\ out.msg = "ERROR_UPDATE_UNFOLLOWERS")
           => (users # out.pre /\ OnlyFollowingsPulled(out.pre, users, OutUser, OutOther))

\* C19 witness: a second follow of an edge between two stored users, made after
\* the clock moved on
C19_Witness ==
    /\ sequential /\ out.msg = "ERROR_UPDATE_FOLLOWING"
    /\ OutUser # OutOther
    /\ InFollowings(users, OutUser, OutOther) /\ InFollowers(users, OutOther, OutUser)
    /\ \E k \in FollowingEntries(UserOf(users, OutUser), OutOther) :
           UserOf(users, OutUser).followings[k].date < now

\* C20: from a collection in which u and f are stored, f is in u.followings and
\* u is not in f.followers, a follow(u, f) or an unfollow(u, f) served alone and
\* answered by the handler leaves f in u.followings exactly when u is in
\* f.followers.
C20_HalfEdgeRepair ==
    (/\ FollowAnswered \/ UnfollowAnswered
     /\ OutUser # OutOther
     /\ HasUser(out.pre, OutUser) /\ HasUser(out.pre, OutOther)
     /\ InFollowings(out.pre, OutUser, OutOther)
     /\ ~InFollowers(out.pre, OutOther, OutUser))
        => (InFollowings(users, OutUser, OutOther) <=> InFollowers(users, OutOther, OutUser))

\* the request of slot p is answered in this step
Answered(p) == pc[p] # "idle" /\ pc'[p] = "idle"

\* C15: every request that reached the store is eventually answered, given that
\* every store request is eventually answered with a result or an error; a
\* request gets one response, sent in the step that frees its slot (or at
\* arrival when validation rejects it), and a store error is reported as a failure.
C15_AlwaysAnswered ==
    /\ \A p \in Procs : (pc[p] # "idle") ~> (pc[p] = "idle")
    /\ [][/\ \A p \in Procs : Answered(p) => (out'.req = req[p] /\ out'.msg # "none")
          /\ out'.msg # "none" =>
                 \/ \E p \in Procs : Answered(p) /\ out'.nops = nops[p]
                 \/ calls' = calls + 1 /\ out'.nops = 0
          /\ out'.msg = "STORE_ERROR" => users' = users]_vars

\* C15 witness: the second update of an unfollow was answered with a store error
C15_Witness ==
    /\ out.msg = "STORE_ERROR" /\ out.req.op = "unfollowUser" /\ out.nops = 2
    /\ \E p \in Procs : pc[p] # "idle"

(* ------------- the claims about concurrent calls and the frame ----------- *)
\* C21: whenever an edge (u, f) between two different stored users is present
\* on both sides, the two entries were written by the same follow call: the
\* date of the entry in u.followings is not later than the date of the entry
\* in f.followers.
C21_SameCallTimestamps ==
    \A i \in 1..Len(users), j \in 1..Len(users) :
        i # j =>
            \A k \in FollowingEntries(users[i], users[j]._id),
               m \in FollowerEntries(users[j], users[i]._id) :
                users[i].followings[k].date <= users[j].followers[m].date

\* some recorded response, the last one included, reports a failure
SomeFailure == past.failed \/ out.msg \notin SuccessMessages \cup {"none"}

\* the follow and unfollow calls answered with success, the last one included
Succeeded ==
    past.succeeded + (IF out.msg \in {"UPDATE_FOLLOW", "UPDATE_UNFOLLOW"} THEN 1 ELSE 0)

AllIdle == \A p \in Procs : pc[p] = "idle"

\* C22: starting from a collection in which the mirror property holds, when
\* every concurrent call was answered with success and no call is in flight,
\* the mirror property holds for every pair of users: f is in u.followings
\* exactly if u is in f.followers.
C22_SuccessfulRacesMirror ==
    (past.recorded /\ AllIdle /\ ~SomeFailure) =>
        \A i \in 1..Len(users), j \in 1..Len(users) :
            InFollowings(users, users[i]._id, users[j]._id)
                <=> InFollowers(users, users[j]._id, users[i]._id)

\* C22 witness: two follow calls in opposite directions both succeeded, each
\* having made its first update before the clock tick and its second after it
C22_Witness ==
    /\ past.recorded /\ AllIdle /\ ~SomeFailure /\ Succeeded = 2
    /\ Len(users) = 2
    /\ \A i \in 1..2 :
           /\ Len(users[i].followings) = 1 /\ users[i].followings[1].date = 0
           /\ Len(users[i].followers) = 1 /\ users[i].followers[1].date = 1
           /\ users[i].followings[1].followingId = users[3 - i]._id
           /\ users[i].followers[1].followId = users[3 - i]._id

\* C23: a successful getCommonFollowers(a, b) served concurrently with follow
\* and unfollow calls returns only users that were followers of a and of b
\* together in some state of the collection since the recording began (the
\* call's own invocation lies in that span).
C23_MutualSnapshot ==
    (past.recorded /\ out.msg = "COMMON_FOLLOWERS") =>
        \A k \in 1..Len(out.data) :
            <<out.data[k]._id, OutUser, OutOther>> \in past.common \cup CommonNow(users)

\* C24: in every state every id in a followers list is the id of a stored
\* user, the intersection that getCommonFollowers is about to look up holds ids
\* of stored users only, and the answer has exactly one view for each of them.
C24_FollowersStored ==
    /\ [](/\ \A i \in 1..Len(users) : FollowerIds(users[i]) \subseteq UserIds(users)
          /\ \A p \in Procs :
                 pc[p] = "findCommon" =>
                     \A t \in Range(local[p]) : HasUser(users, CastObjectId(t)))
    /\ [][\A p \in Procs :
              (pc[p] = "findCommon" /\ pc'[p] = "idle") =>
                  /\ out'.msg = "COMMON_FOLLOWERS"
                  /\ \A t \in Range(local[p]) :
                         Cardinality(ViewsOf(out'.data, CastObjectId(t))) = 1]_vars

\* C24 witness: getCommonFollowers answered with a view while the second
\* update of a follow or unfollow is outstanding
C24_Witness ==
    /\ out.msg = "COMMON_FOLLOWERS" /\ out.data # << >>
    /\ \E p \in Procs : pc[p] \in {"pushFollowers", "pullFollowers"}

\* slot p sends one of the updates of a follow or unfollow in this step
Updates(p) ==
    /\ pc[p] \in {"pushFollowings", "pushFollowers", "pullFollowings", "pullFollowers"}
    /\ pc'[p] # pc[p]

\* the entries of a followings list other than those for fid
OtherFollowings(u, fid) == SelectSeq(u.followings, LAMBDA e : e.followingId # fid)
\* the entries of a followers list other than those for uid
OtherFollowers(u, uid) == SelectSeq(u.followers, LAMBDA e : e.followId # uid)

\* the step changes at most the entry for fid in the followings of uid and the
\* entry for uid in the followers of fid
FrameOf(uid, fid) ==
    /\ Len(users') = Len(users)
    /\ \A i \in 1..Len(users) :
           /\ users'[i]._id = users[i]._id
           /\ users'[i].username = users[i].username
           /\ IF users[i]._id = uid
              THEN /\ OtherFollowings(users'[i], fid) = OtherFollowings(users[i], fid)
                   /\ Len(users'[i].followings) - Len(users[i].followings) \in {-1, 0, 1}
              ELSE users'[i].followings = users[i].followings
           /\ IF users[i]._id = fid
              THEN /\ OtherFollowers(users'[i], uid) = OtherFollowers(users[i], uid)
                   /\ Len(users'[i].followers) - Len(users[i].followers) \in {-1, 0, 1}
              ELSE users'[i].followers = users[i].followers

\* C25: every step of a follow(u, f) or unfollow(u, f) call, whatever the
\* call's outcome, changes nothing except possibly the single entry for f in
\* u.followings and the single entry for u in f.followers: users, usernames,
\* every other entry and every other list stay as they are; every other step
\* except the insert of createUser (the steps of the three queries, arrivals,
\* rejections) leaves the collection unchanged.
C25_Frame ==
    [][/\ \A p \in Procs :
             Updates(p) =>
                 FrameOf(CastObjectId(req[p].userId), CastObjectId(req[p].otherId))
       /\ (\A p \in Procs : ~Updates(p) /\ ~(pc[p] = "create" /\ pc'[p] # pc[p]))
              => users' = users]_vars

\* C25 witness: a follow between two different users succeeded, the follower
\* keeping another entry in its followings
C25_Witness ==
    /\ out.msg = "UPDATE_FOLLOW" /\ OutUser # OutOther
    /\ HasUser(users, OutUser)
    /\ Len(UserOf(users, OutUser).followings) = 2

====
